---- MODULE Spec2Model ----
(***************************************************************************)
(* Model of the streaming core of iggy: the consumer-offset store of a     *)
(* partition (server/src/streaming/partitions/consumer_offsets.rs) and the *)
(* append / persist / read path of a segment                               *)
(* (server/src/streaming/segments/messages.rs).                            *)
(*                                                                         *)
(* A message is represented by its offset.  A MessagesBatch is the record  *)
(* [base_offset, length, last_offset_delta]; its messages are the offsets  *)
(* base_offset .. base_offset + last_offset_delta.                         *)
(***************************************************************************)
EXTENDS Integers, Sequences, FiniteSets, TLC

(* ------------------------------ bounds --------------------------------- *)
\* highest message offset a segment is handed
MaxOffset == 5
\* most messages in one batch
MaxBatchMessages == 3
\* most batches the log file may hold (re-written batches included)
MaxDiskBatches == 4
\* highest current_offset of a partition
MaxPartitionOffset == 1
\* most earlier segments a partition keeps
MaxSegments == 1
\* most messages a reader asks for in one get_messages call
MaxReadCount == 2
\* most trailing bytes missing from a command a client sends
MaxCut == 4
\* most tasks calling the partition at the same time
MaxTasks == 2
\* highest upper half of a configured u64 size
MaxSizeHigh == 2
\* how far the lower half of a configured size is from 0, MAX_SIZE_BYTES, 2^32
MaxSizeDelta == 16

\* encoded size of one message in the modelled runs
MessageBytes == 40
\* configured segment size, in bytes
SegmentMaxSize == 1024
\* payload bytes of a batch in the rollover runs (a batch of 400 bytes)
RolloverPayloadBytes == 384

\* the partition the segment belongs to
partition_id == 1

(* ------------------------------- u32 ----------------------------------- *)
\* A u32 is represented by its two's-complement representative: a value
\* below 2^31 by itself, a value 2^32 - k (k > 0) by -k.  Every quantity of
\* the model is far below 2^31 in magnitude, so addition and subtraction of
\* representatives are the wrapping operations and a cast of a small
\* non-negative number is the number itself.
wrapping_sub(a, b) == a - b
wrapping_add(a, b) == a + b
\* unsigned order on representatives
U32Less(a, b) ==
    IF (a < 0) = (b < 0) THEN a < b ELSE b < 0
U32LessEq(a, b) == a = b \/ U32Less(a, b)

VARIABLES
    \* ---- Segment
    start_offset, end_offset, current_offset, current_size_bytes, is_closed,
    indexes, time_indexes, unsaved_messages,
    \* ---- SegmentStorage (log file and index file of the segment)
    disk_log, disk_index,
    \* ---- build profile: TRUE = arithmetic overflow panics (debug)
    overflow_checks,
    \* ---- last call on the segment, what it returned, the storage calls it
    \*      made and what is_full() answered in it
    last,
    \* ---- Partition
    partition_current_offset, consumer_offsets, consumer_group_offsets,
    \* ---- Partition: the earlier segments, before the active one
    segments,
    \* ---- PartitionStorage (persisted consumer offsets)
    stored_offsets,
    \* ---- last call on the partition, what it returned, and what each
    \*      save_consumer_offset call it made returned
    plast,
    \* ---- command codec: the input last handed to a decoder of
    \*      DeletePartitions, and what the decoder returned
    request, response,
    \* ---- configuration: the SegmentConfig last validated (its size as the
    \*      two 32-bit halves of the u64) and what validate returned
    segment_config, validation,
    \* ---- concurrent callers of the partition: each task's call, its
    \*      position in it and its result; and who holds the RwLock of each
    \*      of the two maps
    tasks, locks,
    \* ---- whether a store_consumer_offset of a task has failed in storage
    store_failed

segment_vars == <<start_offset, end_offset, current_offset, current_size_bytes,
                  is_closed, indexes, time_indexes, unsaved_messages,
                  disk_log, disk_index, overflow_checks, last>>
partition_vars == <<partition_current_offset, consumer_offsets,
                    consumer_group_offsets, segments, stored_offsets, plast>>
command_vars == <<request, response>>
config_vars == <<segment_config, validation>>
task_vars == <<tasks, locks, store_failed>>
vars == <<segment_vars, partition_vars, command_vars, config_vars, task_vars>>

(* ------------------------------ helpers -------------------------------- *)
None == [is_some |-> FALSE, items |-> <<>>]
Some(s) == [is_some |-> TRUE, items |-> s]

RECURSIVE SumLength(_)
SumLength(batches) ==
    IF batches = <<>> THEN 0
    ELSE Head(batches).length + SumLength(Tail(batches))

\* offsets of the messages of one batch, ascending
BatchOffsets(b) == [i \in 1..(b.last_offset_delta + 1) |-> b.base_offset + i - 1]

RECURSIVE Flatten(_)
Flatten(batches) ==
    IF batches = <<>> THEN <<>>
    ELSE BatchOffsets(Head(batches)) \o Flatten(Tail(batches))

SelectOffsets(offs, lo, hi) == SelectSeq(offs, LAMBDA o : o >= lo /\ o <= hi)

Ok == <<"Ok">>
SegmentClosed(s, p) == <<"SegmentClosed", s, p>>
IoError == <<"Io">>
Panicked == <<"panic">>
OkValue(v) == <<"Ok", v>>

(* --------------------------- MessagesBatch ----------------------------- *)
messages_to_batch(base_offset, last_offset_delta, payload_len) ==
    [base_offset |-> base_offset,
     length |-> 8 + 4 + 4 + payload_len,
     last_offset_delta |-> last_offset_delta]

(* --------------------------- SegmentStorage ---------------------------- *)
\* byte position in the log file at which the i-th stored batch begins
DiskPosition(i) == SumLength(SubSeq(disk_log, 1, i - 1))

\* save_messages: appends the batches to the log file, returns bytes written
storage_save_messages(batches) == disk_log \o batches

RECURSIVE IndexEntries(_, _)
IndexEntries(batches, position) ==
    IF batches = <<>> THEN <<>>
    ELSE <<[relative_offset |-> Head(batches).base_offset
                                + Head(batches).last_offset_delta - start_offset,
            position |-> position]>>
         \o IndexEntries(Tail(batches), wrapping_add(position, Head(batches).length))

\* save_index: one entry per batch, positions counted from current_position
storage_save_index(current_position, batches) ==
    disk_index \o IndexEntries(batches, current_position)

\* load_messages: the messages of the batches that begin inside the byte
\* range of index_range and whose offsets lie in its offset range
storage_load_messages(index_range) ==
    LET inRange(i) == /\ U32LessEq(index_range.start.position, DiskPosition(i))
                      /\ U32Less(DiskPosition(i), index_range.end.position)
        RECURSIVE Read(_)
        Read(i) == IF i > Len(disk_log) THEN <<>>
                   ELSE (IF inRange(i) THEN BatchOffsets(disk_log[i]) ELSE <<>>)
                        \o Read(i + 1)
    IN SelectOffsets(Read(1),
                     start_offset + index_range.start.relative_offset,
                     start_offset + index_range.end.relative_offset)

\* load_index_range: the index file's entries around [start, end], if any
storage_load_index_range(base, start, end) ==
    LET from == {i \in 1..Len(disk_index) :
                    disk_index[i].relative_offset >= start - base}
        past == {i \in 1..Len(disk_index) :
                    disk_index[i].relative_offset > end - base}
        first(S) == CHOOSE i \in S : \A j \in S : i <= j
    IN IF from = {} THEN None
       ELSE Some(<<[start |-> [relative_offset |-> start - base,
                               position |-> disk_index[first(from)].position],
                    end |-> [relative_offset |-> end - base,
                             position |-> IF past = {} THEN SumLength(disk_log)
                                          ELSE disk_index[first(past)].position]]>>)

(* ------------------------------ Segment -------------------------------- *)
\* is_full: size reached the configured maximum, or the expiry elapsed
is_full(expired) == current_size_bytes >= SegmentMaxSize \/ expired

get_messages_count ==
    IF current_size_bytes = 0 THEN 0 ELSE current_offset - start_offset + 1

load_messages_from_unsaved_buffer(offset, end) ==
    SelectOffsets(Flatten(unsaved_messages.items), offset, end)

\* the IndexRange load_messages_from_disk builds from the in-memory indexes,
\* None when there are none or none at relative_start_offset
memory_index_range(start, end) ==
    LET relative_start_offset == start - start_offset
        relative_end_offset == end - start_offset
        n == Len(indexes.items)
    IN IF indexes.is_some /\ relative_start_offset + 1 <= n
       THEN Some(<<[start |-> [relative_offset |-> relative_start_offset,
                               position |-> indexes.items[relative_start_offset + 1].position],
                    end |-> [relative_offset |-> relative_end_offset,
                             position |-> IF relative_end_offset + 2 <= n
                                          THEN indexes.items[relative_end_offset + 2].position
                                          ELSE current_size_bytes]]>>)
       ELSE None

load_messages_from_disk(start, end) ==
    IF start > end \/ end > current_offset THEN <<>>
    ELSE
      LET m == memory_index_range(start, end)
      IN IF m.is_some THEN storage_load_messages(m.items[1])
         ELSE LET r == storage_load_index_range(start_offset, start, end)
              IN IF ~r.is_some THEN <<>> ELSE storage_load_messages(r.items[1])

\* variant: an offset above current_offset is lowered to current_offset
get_messages_clamping_above(offset, count) ==
    IF count = 0 THEN <<>>
    ELSE
      LET low == IF offset < start_offset THEN start_offset ELSE offset
          off == IF low > current_offset THEN current_offset ELSE low
          e0 == off + (count - 1)
          end == IF e0 > current_offset THEN current_offset ELSE e0
          buffered == Flatten(unsaved_messages.items)
      IN IF ~unsaved_messages.is_some THEN load_messages_from_disk(off, end)
         ELSE IF unsaved_messages.items = <<>> THEN load_messages_from_disk(off, end)
         ELSE IF end < buffered[1] THEN load_messages_from_disk(off, end)
         ELSE IF end <= buffered[Len(buffered)]
              THEN load_messages_from_unsaved_buffer(off, end)
         ELSE load_messages_from_disk(off, end)
              \o load_messages_from_unsaved_buffer(off, end)

\* get_messages(offset, count): the offsets of the returned messages.  The
\* code reads `.offset` of the buffer's first and last element and filters the
\* buffer by `.offset`; the buffer's elements are read here as the messages
\* of its batches, in order.
get_messages(offset, count) ==
    IF count = 0 THEN <<>>
    ELSE
      LET off == IF offset < start_offset THEN start_offset ELSE offset
          e0 == off + (count - 1)
          end == IF e0 > current_offset THEN current_offset ELSE e0
          buffered == Flatten(unsaved_messages.items)
      IN IF ~unsaved_messages.is_some THEN load_messages_from_disk(off, end)
         ELSE IF unsaved_messages.items = <<>> THEN load_messages_from_disk(off, end)
         ELSE IF end < buffered[1] THEN load_messages_from_disk(off, end)
         ELSE IF end <= buffered[Len(buffered)]
              THEN load_messages_from_unsaved_buffer(off, end)
         ELSE load_messages_from_disk(off, end)
              \o load_messages_from_unsaved_buffer(off, end)

\* variant: the two fields of the pushed entry are swapped
store_index_for_batch_swapped(batch_last_offset) ==
    LET relative_offset == batch_last_offset - start_offset
    IN IF indexes.is_some
       THEN Some(Append(indexes.items, [relative_offset |-> current_size_bytes,
                                        position |-> relative_offset]))
       ELSE indexes

\* store_index_for_batch: the value of indexes after the call
store_index_for_batch(batch_last_offset) ==
    LET relative_offset == batch_last_offset - start_offset
    IN IF indexes.is_some
       THEN Some(Append(indexes.items, [relative_offset |-> relative_offset,
                                        position |-> current_size_bytes]))
       ELSE indexes

\* the offset the partition hands out next: offsets are contiguous
NextOffset ==
    IF unsaved_messages.items # <<>>
    THEN LET b == unsaved_messages.items[Len(unsaved_messages.items)]
         IN b.base_offset + b.last_offset_delta + 1
    ELSE IF disk_log # <<>>
    THEN LET b == disk_log[Len(disk_log)]
         IN b.base_offset + b.last_offset_delta + 1
    ELSE start_offset

\* variant: the is_closed check is missing
append_messages_unchecked(messages, last_message_offset) ==
    /\ last' = [op |-> "append_messages", result |->
                    Ok,
                batch |-> <<messages>>, last_message_offset |-> last_message_offset,
                calls |-> <<>>, full |-> FALSE,
                offset |-> 0, count |-> 0]
    /\ indexes' = store_index_for_batch(last_message_offset)
    /\ unsaved_messages' = Some(Append(unsaved_messages.items, messages))
    /\ UNCHANGED <<start_offset, end_offset, current_offset, current_size_bytes,
                   is_closed, time_indexes, disk_log, disk_index, overflow_checks>>
    /\ UNCHANGED <<partition_vars, command_vars, config_vars, task_vars>>

append_messages(messages, last_message_offset) ==
    /\ last' = [op |-> "append_messages", result |->
                    IF is_closed THEN SegmentClosed(start_offset, partition_id) ELSE Ok,
                batch |-> <<messages>>, last_message_offset |-> last_message_offset,
                calls |-> <<>>, full |-> FALSE,
                offset |-> 0, count |-> 0]
    /\ IF is_closed
       THEN UNCHANGED <<indexes, unsaved_messages>>
       ELSE /\ indexes' = store_index_for_batch(last_message_offset)
            /\ unsaved_messages' = Some(Append(unsaved_messages.items, messages))
    /\ UNCHANGED <<start_offset, end_offset, current_offset, current_size_bytes,
                   is_closed, time_indexes, disk_log, disk_index, overflow_checks>>
    /\ UNCHANGED <<partition_vars, command_vars, config_vars, task_vars>>

\* the partition packs the next n messages into one batch and appends it
CallAppendMessages ==
    \E n \in 1..MaxBatchMessages :
        /\ NextOffset + n - 1 <= MaxOffset
        /\ append_messages(messages_to_batch(NextOffset, n - 1, n * MessageBytes),
                          NextOffset + n - 1)

FailPoints == {"none", "save_messages", "save_index", "save_time_index"}

\* variant: a failing save_index does not return, the call carries on
persist_messages_carrying_on(fail, expired) ==
    LET batches == unsaved_messages.items
        saved_bytes == SumLength(batches)
        underflow == current_size_bytes < saved_bytes
        current_position == wrapping_sub(current_size_bytes, saved_bytes)
        Returns(result, calls) ==
            last' = [op |-> "persist_messages", result |-> result, batch |-> <<>>,
                     last_message_offset |-> 0, calls |-> calls,
                     full |-> (result = Ok /\ calls # <<>> /\ is_full(expired)),
                     offset |-> 0, count |-> 0]
        SegmentUnchanged ==
            UNCHANGED <<start_offset, end_offset, current_offset, current_size_bytes,
                        is_closed, indexes, time_indexes, unsaved_messages,
                        overflow_checks>>
    IN
    /\ UNCHANGED <<partition_vars, command_vars, config_vars, task_vars>>
    /\ IF ~unsaved_messages.is_some \/ batches = <<>>
       THEN /\ Returns(Ok, <<>>)
            /\ SegmentUnchanged
            /\ UNCHANGED <<disk_log, disk_index>>
       ELSE IF fail = "save_messages"
       THEN /\ Returns(IoError, <<"save_messages">>)
            /\ SegmentUnchanged
            /\ UNCHANGED <<disk_log, disk_index>>
       ELSE IF underflow /\ overflow_checks
       THEN \* current_size_bytes - saved_bytes panics with overflow checks on
            /\ Returns(Panicked, <<"save_messages">>)
            /\ disk_log' = storage_save_messages(batches)
            /\ SegmentUnchanged
            /\ UNCHANGED disk_index
       ELSE IF fail = "save_index"
       THEN /\ Returns(IoError, <<"save_messages", "save_index", "save_time_index">>)
            /\ disk_log' = storage_save_messages(batches)
            /\ UNCHANGED disk_index
            /\ IF is_full(expired)
               THEN /\ end_offset' = current_offset
                    /\ is_closed' = TRUE
                    /\ unsaved_messages' = None
               ELSE /\ unsaved_messages' = Some(<<>>)
                    /\ UNCHANGED <<end_offset, is_closed>>
            /\ UNCHANGED <<start_offset, current_offset, current_size_bytes,
                           indexes, time_indexes, overflow_checks>>
       ELSE IF fail = "save_time_index"
       THEN /\ Returns(IoError, <<"save_messages", "save_index", "save_time_index">>)
            /\ disk_log' = storage_save_messages(batches)
            /\ disk_index' = storage_save_index(current_position, batches)
            /\ SegmentUnchanged
       ELSE /\ Returns(Ok, <<"save_messages", "save_index", "save_time_index">>)
            /\ disk_log' = storage_save_messages(batches)
            /\ disk_index' = storage_save_index(current_position, batches)
            /\ IF is_full(expired)
               THEN /\ end_offset' = current_offset
                    /\ is_closed' = TRUE
                    /\ unsaved_messages' = None
               ELSE /\ unsaved_messages' = Some(<<>>)
                    /\ UNCHANGED <<end_offset, is_closed>>
            /\ UNCHANGED <<start_offset, current_offset, current_size_bytes,
                           indexes, time_indexes, overflow_checks>>

\* variant: a full segment is closed without recording its end_offset
persist_messages_no_end_offset(fail, expired) ==
    LET batches == unsaved_messages.items
        saved_bytes == SumLength(batches)
        underflow == current_size_bytes < saved_bytes
        current_position == wrapping_sub(current_size_bytes, saved_bytes)
        Returns(result, calls) ==
            last' = [op |-> "persist_messages", result |-> result, batch |-> <<>>,
                     last_message_offset |-> 0, calls |-> calls,
                     full |-> (result = Ok /\ calls # <<>> /\ is_full(expired)),
                     offset |-> 0, count |-> 0]
        SegmentUnchanged ==
            UNCHANGED <<start_offset, end_offset, current_offset, current_size_bytes,
                        is_closed, indexes, time_indexes, unsaved_messages,
                        overflow_checks>>
    IN
    /\ UNCHANGED <<partition_vars, command_vars, config_vars, task_vars>>
    /\ IF ~unsaved_messages.is_some \/ batches = <<>>
       THEN /\ Returns(Ok, <<>>)
            /\ SegmentUnchanged
            /\ UNCHANGED <<disk_log, disk_index>>
       ELSE IF fail = "save_messages"
       THEN /\ Returns(IoError, <<"save_messages">>)
            /\ SegmentUnchanged
            /\ UNCHANGED <<disk_log, disk_index>>
       ELSE IF underflow /\ overflow_checks
       THEN \* current_size_bytes - saved_bytes panics with overflow checks on
            /\ Returns(Panicked, <<"save_messages">>)
            /\ disk_log' = storage_save_messages(batches)
            /\ SegmentUnchanged
            /\ UNCHANGED disk_index
       ELSE IF fail = "save_index"
       THEN /\ Returns(IoError, <<"save_messages", "save_index">>)
            /\ disk_log' = storage_save_messages(batches)
            /\ SegmentUnchanged
            /\ UNCHANGED disk_index
       ELSE IF fail = "save_time_index"
       THEN /\ Returns(IoError, <<"save_messages", "save_index", "save_time_index">>)
            /\ disk_log' = storage_save_messages(batches)
            /\ disk_index' = storage_save_index(current_position, batches)
            /\ SegmentUnchanged
       ELSE /\ Returns(Ok, <<"save_messages", "save_index", "save_time_index">>)
            /\ disk_log' = storage_save_messages(batches)
            /\ disk_index' = storage_save_index(current_position, batches)
            /\ IF is_full(expired)
               THEN /\ UNCHANGED end_offset
                    /\ is_closed' = TRUE
                    /\ unsaved_messages' = None
               ELSE /\ unsaved_messages' = Some(<<>>)
                    /\ UNCHANGED <<end_offset, is_closed>>
            /\ UNCHANGED <<start_offset, current_offset, current_size_bytes,
                           indexes, time_indexes, overflow_checks>>

\* variant: the segment is closed when full also when nothing is buffered
persist_messages_closing_empty(fail, expired) ==
    LET batches == unsaved_messages.items
        saved_bytes == SumLength(batches)
        underflow == current_size_bytes < saved_bytes
        current_position == wrapping_sub(current_size_bytes, saved_bytes)
        Returns(result, calls) ==
            last' = [op |-> "persist_messages", result |-> result, batch |-> <<>>,
                     last_message_offset |-> 0, calls |-> calls,
                     full |-> (result = Ok /\ calls # <<>> /\ is_full(expired)),
                     offset |-> 0, count |-> 0]
        SegmentUnchanged ==
            UNCHANGED <<start_offset, end_offset, current_offset, current_size_bytes,
                        is_closed, indexes, time_indexes, unsaved_messages,
                        overflow_checks>>
    IN
    /\ UNCHANGED <<partition_vars, command_vars, config_vars, task_vars>>
    /\ IF ~unsaved_messages.is_some \/ batches = <<>>
       THEN /\ Returns(Ok, <<>>)
            /\ IF is_full(expired)
               THEN /\ end_offset' = current_offset
                    /\ is_closed' = TRUE
                    /\ unsaved_messages' = None
               ELSE UNCHANGED <<end_offset, is_closed, unsaved_messages>>
            /\ UNCHANGED <<start_offset, current_offset, current_size_bytes,
                           indexes, time_indexes, overflow_checks>>
            /\ UNCHANGED <<disk_log, disk_index>>
       ELSE IF fail = "save_messages"
       THEN /\ Returns(IoError, <<"save_messages">>)
            /\ SegmentUnchanged
            /\ UNCHANGED <<disk_log, disk_index>>
       ELSE IF underflow /\ overflow_checks
       THEN \* current_size_bytes - saved_bytes panics with overflow checks on
            /\ Returns(Panicked, <<"save_messages">>)
            /\ disk_log' = storage_save_messages(batches)
            /\ SegmentUnchanged
            /\ UNCHANGED disk_index
       ELSE IF fail = "save_index"
       THEN /\ Returns(IoError, <<"save_messages", "save_index">>)
            /\ disk_log' = storage_save_messages(batches)
            /\ SegmentUnchanged
            /\ UNCHANGED disk_index
       ELSE IF fail = "save_time_index"
       THEN /\ Returns(IoError, <<"save_messages", "save_index", "save_time_index">>)
            /\ disk_log' = storage_save_messages(batches)
            /\ disk_index' = storage_save_index(current_position, batches)
            /\ SegmentUnchanged
       ELSE /\ Returns(Ok, <<"save_messages", "save_index", "save_time_index">>)
            /\ disk_log' = storage_save_messages(batches)
            /\ disk_index' = storage_save_index(current_position, batches)
            /\ IF is_full(expired)
               THEN /\ end_offset' = current_offset
                    /\ is_closed' = TRUE
                    /\ unsaved_messages' = None
               ELSE /\ unsaved_messages' = Some(<<>>)
                    /\ UNCHANGED <<end_offset, is_closed>>
            /\ UNCHANGED <<start_offset, current_offset, current_size_bytes,
                           indexes, time_indexes, overflow_checks>>

persist_messages(fail, expired) ==
    LET batches == unsaved_messages.items
        saved_bytes == SumLength(batches)
        underflow == current_size_bytes < saved_bytes
        current_position == wrapping_sub(current_size_bytes, saved_bytes)
        Returns(result, calls) ==
            last' = [op |-> "persist_messages", result |-> result, batch |-> <<>>,
                     last_message_offset |-> 0, calls |-> calls,
                     full |-> (result = Ok /\ calls # <<>> /\ is_full(expired)),
                     offset |-> 0, count |-> 0]
        SegmentUnchanged ==
            UNCHANGED <<start_offset, end_offset, current_offset, current_size_bytes,
                        is_closed, indexes, time_indexes, unsaved_messages,
                        overflow_checks>>
    IN
    /\ UNCHANGED <<partition_vars, command_vars, config_vars, task_vars>>
    /\ IF ~unsaved_messages.is_some \/ batches = <<>>
       THEN /\ Returns(Ok, <<>>)
            /\ SegmentUnchanged
            /\ UNCHANGED <<disk_log, disk_index>>
       ELSE IF fail = "save_messages"
       THEN /\ Returns(IoError, <<"save_messages">>)
            /\ SegmentUnchanged
            /\ UNCHANGED <<disk_log, disk_index>>
       ELSE IF underflow /\ overflow_checks
       THEN \* current_size_bytes - saved_bytes panics with overflow checks on
            /\ Returns(Panicked, <<"save_messages">>)
            /\ disk_log' = storage_save_messages(batches)
            /\ SegmentUnchanged
            /\ UNCHANGED disk_index
       ELSE IF fail = "save_index"
       THEN /\ Returns(IoError, <<"save_messages", "save_index">>)
            /\ disk_log' = storage_save_messages(batches)
            /\ SegmentUnchanged
            /\ UNCHANGED disk_index
       ELSE IF fail = "save_time_index"
       THEN /\ Returns(IoError, <<"save_messages", "save_index", "save_time_index">>)
            /\ disk_log' = storage_save_messages(batches)
            /\ disk_index' = storage_save_index(current_position, batches)
            /\ SegmentUnchanged
       ELSE /\ Returns(Ok, <<"save_messages", "save_index", "save_time_index">>)
            /\ disk_log' = storage_save_messages(batches)
            /\ disk_index' = storage_save_index(current_position, batches)
            /\ IF is_full(expired)
               THEN /\ end_offset' = current_offset
                    /\ is_closed' = TRUE
                    /\ unsaved_messages' = None
               ELSE /\ unsaved_messages' = Some(<<>>)
                    /\ UNCHANGED <<end_offset, is_closed>>
            /\ UNCHANGED <<start_offset, current_offset, current_size_bytes,
                           indexes, time_indexes, overflow_checks>>

CallPersistMessages ==
    \E fail \in FailPoints, expired \in BOOLEAN :
        /\ Len(disk_log) + Len(unsaved_messages.items) <= MaxDiskBatches
        /\ persist_messages(fail, expired)

\* a reader asks the segment for count messages from offset on
CallGetMessages ==
    \E offset \in 0..(MaxOffset + 1), count \in 0..MaxReadCount :
        /\ last' = [op |-> "get_messages",
                    result |-> OkValue(get_messages(offset, count)),
                    batch |-> <<>>, last_message_offset |-> 0, calls |-> <<>>,
                    full |-> FALSE, offset |-> offset, count |-> count]
        /\ UNCHANGED <<start_offset, end_offset, current_offset, current_size_bytes,
                       is_closed, indexes, time_indexes, unsaved_messages,
                       disk_log, disk_index, overflow_checks>>
        /\ UNCHANGED <<partition_vars, command_vars, config_vars, task_vars>>

StartOffsets == {0, 1}

InitSegmentFields ==
    /\ start_offset \in StartOffsets
    /\ end_offset = 0
    /\ current_offset = start_offset
    /\ current_size_bytes = 0
    /\ is_closed = FALSE
    /\ indexes \in {None, Some(<<>>)}
    /\ time_indexes \in {None, Some(<<>>)}
    /\ unsaved_messages = None
    /\ disk_log = <<>>
    /\ disk_index = <<>>
    /\ overflow_checks \in BOOLEAN
    /\ last = [op |-> "create", result |-> Ok, batch |-> <<>>,
               last_message_offset |-> 0, calls |-> <<>>, full |-> FALSE,
                offset |-> 0, count |-> 0]


(* ----------------------------- Partition ------------------------------- *)
Kinds == {"Consumer", "ConsumerGroup"}
\* the consumer ids and consumer group ids of the modelled runs
ConsumerIds == {1, 2}

InvalidOffset(o) == <<"InvalidOffset", o>>

ConsumerOffset(kind, consumer_id, offset) ==
    [kind |-> kind, consumer_id |-> consumer_id, offset |-> offset]

\* the map a PollingConsumer of this kind is looked up in
MapOf(kind) ==
    IF kind = "Consumer" THEN consumer_offsets ELSE consumer_group_offsets

\* HashMap::insert
Insert(map, key, value) ==
    [k \in DOMAIN map \cup {key} |-> IF k = key THEN value ELSE map[k]]

\* variant: an id missing under its own kind is looked up under the other
get_consumer_offset_any_kind(kind, consumer_id) ==
    IF consumer_id \in DOMAIN MapOf(kind) THEN MapOf(kind)[consumer_id].offset
    ELSE IF consumer_id \in DOMAIN consumer_offsets
         THEN consumer_offsets[consumer_id].offset
    ELSE IF consumer_id \in DOMAIN consumer_group_offsets
         THEN consumer_group_offsets[consumer_id].offset
    ELSE 0

get_consumer_offset(kind, consumer_id) ==
    IF consumer_id \in DOMAIN MapOf(kind) THEN MapOf(kind)[consumer_id].offset
    ELSE 0

\* save_consumer_offset: the record is written under its (kind, id) path
storage_save_consumer_offset(consumer_offset) ==
    Insert(stored_offsets, <<consumer_offset.kind, consumer_offset.consumer_id>>,
           consumer_offset.offset)

\* variant: a failed storage write is tried a second time
store_offset_retrying(kind, consumer_id, offset, map, save_fails) ==
    IF consumer_id \in DOMAIN map
    THEN LET updated == [map EXCEPT ![consumer_id].offset = offset]
         IN <<Ok, updated, storage_save_consumer_offset(updated[consumer_id]),
              IF save_fails THEN <<IoError, Ok>> ELSE <<Ok>>>>
    ELSE LET consumer_offset == ConsumerOffset(kind, consumer_id, offset)
         IN <<Ok, Insert(map, consumer_id, consumer_offset),
              storage_save_consumer_offset(consumer_offset),
              IF save_fails THEN <<IoError, Ok>> ELSE <<Ok>>>>

\* store_offset: <<result, the map afterwards, the storage afterwards, what
\* each save_consumer_offset call returned>>
store_offset(kind, consumer_id, offset, map, save_fails) ==
    IF consumer_id \in DOMAIN map
    THEN LET updated == [map EXCEPT ![consumer_id].offset = offset]
         IN IF save_fails THEN <<IoError, updated, stored_offsets, <<IoError>>>>
            ELSE <<Ok, updated, storage_save_consumer_offset(updated[consumer_id]),
                   <<Ok>>>>
    ELSE LET consumer_offset == ConsumerOffset(kind, consumer_id, offset)
         IN IF save_fails THEN <<IoError, map, stored_offsets, <<IoError>>>>
            ELSE <<Ok, Insert(map, consumer_id, consumer_offset),
                   storage_save_consumer_offset(consumer_offset), <<Ok>>>>

\* variant: the offset check rejects offset = current_offset as well
store_consumer_offset_strict(kind, consumer_id, offset, save_fails) ==
    /\ UNCHANGED <<partition_current_offset, segments>>
    /\ UNCHANGED <<segment_vars, command_vars, config_vars, task_vars>>
    /\ IF offset >= partition_current_offset
       THEN /\ plast' = [op |-> "store_consumer_offset", kind |-> kind,
                         consumer_id |-> consumer_id, offset |-> offset,
                         result |-> InvalidOffset(offset), saves |-> <<>>]
            /\ UNCHANGED <<consumer_offsets, consumer_group_offsets, stored_offsets>>
       ELSE LET r == store_offset(kind, consumer_id, offset, MapOf(kind), save_fails)
            IN /\ plast' = [op |-> "store_consumer_offset", kind |-> kind,
                            consumer_id |-> consumer_id, offset |-> offset,
                            result |-> r[1], saves |-> r[4]]
               /\ IF kind = "Consumer"
                  THEN /\ consumer_offsets' = r[2]
                       /\ UNCHANGED consumer_group_offsets
                  ELSE /\ consumer_group_offsets' = r[2]
                       /\ UNCHANGED consumer_offsets
               /\ stored_offsets' = r[3]

store_consumer_offset(kind, consumer_id, offset, save_fails) ==
    /\ UNCHANGED <<partition_current_offset, segments>>
    /\ UNCHANGED <<segment_vars, command_vars, config_vars, task_vars>>
    /\ IF offset > partition_current_offset
       THEN /\ plast' = [op |-> "store_consumer_offset", kind |-> kind,
                         consumer_id |-> consumer_id, offset |-> offset,
                         result |-> InvalidOffset(offset), saves |-> <<>>]
            /\ UNCHANGED <<consumer_offsets, consumer_group_offsets, stored_offsets>>
       ELSE LET r == store_offset(kind, consumer_id, offset, MapOf(kind), save_fails)
            IN /\ plast' = [op |-> "store_consumer_offset", kind |-> kind,
                            consumer_id |-> consumer_id, offset |-> offset,
                            result |-> r[1], saves |-> r[4]]
               /\ IF kind = "Consumer"
                  THEN /\ consumer_offsets' = r[2]
                       /\ UNCHANGED consumer_group_offsets
                  ELSE /\ consumer_group_offsets' = r[2]
                       /\ UNCHANGED consumer_offsets
               /\ stored_offsets' = r[3]

CallStoreConsumerOffset ==
    \E kind \in Kinds, consumer_id \in ConsumerIds,
       offset \in 0..(MaxPartitionOffset + 1), save_fails \in BOOLEAN :
        store_consumer_offset(kind, consumer_id, offset, save_fails)

CallGetConsumerOffset ==
    \E kind \in Kinds, consumer_id \in ConsumerIds :
        /\ plast' = [op |-> "get_consumer_offset", kind |-> kind,
                     consumer_id |-> consumer_id, offset |-> 0,
                     result |-> OkValue(get_consumer_offset(kind, consumer_id)),
                     saves |-> <<>>]
        /\ UNCHANGED <<partition_current_offset, consumer_offsets,
                       consumer_group_offsets, segments, stored_offsets>>
        /\ UNCHANGED <<segment_vars, command_vars, config_vars, task_vars>>

EmptyMap == [k \in {} |-> 0]

\* load_consumer_offsets of the storage: the records stored under this kind
storage_load_consumer_offsets(kind) ==
    {ConsumerOffset(kind, key[2], stored_offsets[key]) :
        key \in {x \in DOMAIN stored_offsets : x[1] = kind}}

\* variant: the kind is ignored, the records of the consumers are loaded
load_consumer_offsets_from_storage_any_kind(kind, map) ==
    LET loaded_consumer_offsets == storage_load_consumer_offsets("Consumer")
        ids == {c.consumer_id : c \in loaded_consumer_offsets}
    IN [id \in DOMAIN map \cup ids |->
            IF id \in ids
            THEN CHOOSE c \in loaded_consumer_offsets : c.consumer_id = id
            ELSE map[id]]

\* load_consumer_offsets_from_storage: the map of this kind after every
\* loaded record was inserted under its consumer_id
load_consumer_offsets_from_storage(kind, map) ==
    LET loaded_consumer_offsets == storage_load_consumer_offsets(kind)
        ids == {c.consumer_id : c \in loaded_consumer_offsets}
    IN [id \in DOMAIN map \cup ids |->
            IF id \in ids
            THEN CHOOSE c \in loaded_consumer_offsets : c.consumer_id = id
            ELSE map[id]]

\* load_consumer_offsets: <<result, consumer_offsets, consumer_group_offsets>>
\* afterwards; load_fails names the kind whose storage read fails, if any
load_consumer_offsets(load_fails, consumers, groups) ==
    IF load_fails = "Consumer" THEN <<IoError, consumers, groups>>
    ELSE LET loaded == load_consumer_offsets_from_storage("Consumer", consumers)
         IN IF load_fails = "ConsumerGroup" THEN <<IoError, loaded, groups>>
            ELSE <<Ok, loaded,
                   load_consumer_offsets_from_storage("ConsumerGroup", groups)>>

\* restart: a fresh partition over the same storage loads its offsets
Restart ==
    \E load_fails \in {"none"} \cup Kinds :
        LET r == load_consumer_offsets(load_fails, EmptyMap, EmptyMap)
        IN /\ plast' = [op |-> "load_consumer_offsets", kind |-> "Consumer",
                        consumer_id |-> 0, offset |-> 0, result |-> r[1],
                        saves |-> <<>>]
           /\ consumer_offsets' = r[2]
           /\ consumer_group_offsets' = r[3]
           /\ UNCHANGED <<partition_current_offset, segments, stored_offsets>>
           /\ UNCHANGED <<segment_vars, command_vars, config_vars, task_vars>>

\* store_consumer_offset over a storage whose writes succeed
CallStoreConsumerOffsetSaved ==
    \E kind \in Kinds, consumer_id \in ConsumerIds,
       offset \in 0..(MaxPartitionOffset + 1) :
        store_consumer_offset(kind, consumer_id, offset, FALSE)

InitPartitionFields ==
    /\ partition_current_offset \in 0..MaxPartitionOffset
    /\ consumer_offsets = EmptyMap
    /\ consumer_group_offsets = EmptyMap
    /\ segments = <<>>
    /\ stored_offsets = EmptyMap
    /\ plast = [op |-> "create", kind |-> "Consumer", consumer_id |-> 0,
                offset |-> 0, result |-> Ok, saves |-> <<>>]

(* ---------------------------- command codec ---------------------------- *)
\* iggy/src/partitions/delete_partitions.rs.  A byte is a number of 0..255, a
\* text is a sequence of one-character strings.
MAX_PARTITIONS_COUNT == 100000

OkCommand(command) == <<"Ok", command>>
Err(error) == <<"Err", error>>

\* u32::to_le_bytes and u32::from_le_bytes, on representatives
u32_to_le_bytes(v) ==
    <<v % 256, (v \div 256) % 256, (v \div 65536) % 256, (v \div 16777216) % 256>>

u32_from_le_bytes(b) ==
    b[1] + 256 * b[2] + 65536 * b[3]
      + 16777216 * (IF b[4] >= 128 THEN b[4] - 256 ELSE b[4])

\* Identifier: [kind, length, value]; the kind tag is 1 for a numeric and 2
\* for a string identifier
Identifier_numeric(v) == [kind |-> "Numeric", length |-> 4, value |-> u32_to_le_bytes(v)]
Identifier_named(bytes) == [kind |-> "String", length |-> Len(bytes), value |-> bytes]

get_size_bytes(identifier) == 2 + identifier.length

Identifier_as_bytes(identifier) ==
    <<IF identifier.kind = "Numeric" THEN 1 ELSE 2, identifier.length>>
      \o identifier.value

Identifier_from_bytes(bytes) ==
    IF Len(bytes) < 3 THEN Err("InvalidCommand")
    ELSE IF bytes[1] \notin {1, 2} THEN Err("InvalidCommand")
    ELSE IF Len(bytes) < 2 + bytes[2] THEN Err("InvalidCommand")
    ELSE IF bytes[1] = 1 /\ bytes[2] # 4 THEN Err("InvalidCommand")
    ELSE IF bytes[1] = 2 /\ bytes[2] = 0 THEN Err("InvalidCommand")
    ELSE OkCommand([kind |-> IF bytes[1] = 1 THEN "Numeric" ELSE "String",
                    length |-> bytes[2],
                    value |-> SubSeq(bytes, 3, 2 + bytes[2])])

DeletePartitions(stream_id, topic_id, partitions_count) ==
    [stream_id |-> stream_id, topic_id |-> topic_id,
     partitions_count |-> partitions_count]

\* variant: the lower end of the accepted range is 0
validate_from_zero(command) ==
    IF ~(command.partitions_count \in 0..MAX_PARTITIONS_COUNT)
    THEN Err("TooManyPartitions")
    ELSE Ok

validate(command) ==
    IF ~(command.partitions_count \in 1..MAX_PARTITIONS_COUNT)
    THEN Err("TooManyPartitions")
    ELSE Ok

\* variant: partitions_count is written before the identifiers
as_bytes_count_first(command) ==
    u32_to_le_bytes(command.partitions_count)
      \o Identifier_as_bytes(command.stream_id)
      \o Identifier_as_bytes(command.topic_id)

as_bytes(command) ==
    Identifier_as_bytes(command.stream_id)
      \o Identifier_as_bytes(command.topic_id)
      \o u32_to_le_bytes(command.partitions_count)

\* from_bytes: slicing bytes[position..position + 4] past the end of the
\* input panics
from_bytes(bytes) ==
    IF Len(bytes) < 10 THEN Err("InvalidCommand")
    ELSE
      LET stream_id == Identifier_from_bytes(bytes)
      IN IF stream_id[1] # "Ok" THEN stream_id
         ELSE
           LET position1 == get_size_bytes(stream_id[2])
               topic_id == Identifier_from_bytes(SubSeq(bytes, position1 + 1, Len(bytes)))
           IN IF topic_id[1] # "Ok" THEN topic_id
              ELSE
                LET position == position1 + get_size_bytes(topic_id[2])
                IN IF position + 4 > Len(bytes) THEN Panicked
                   ELSE
                     LET command ==
                           DeletePartitions(stream_id[2], topic_id[2],
                               u32_from_le_bytes(SubSeq(bytes, position + 1, position + 4)))
                     IN IF validate(command) # Ok THEN validate(command)
                        ELSE OkCommand(command)

\* ---- textual form
Digits == {"0", "1", "2", "3", "4", "5", "6", "7", "8", "9"}
DigitValue ==
    "0" :> 0 @@ "1" :> 1 @@ "2" :> 2 @@ "3" :> 3 @@ "4" :> 4 @@
    "5" :> 5 @@ "6" :> 6 @@ "7" :> 7 @@ "8" :> 8 @@ "9" :> 9
DigitChar == [d \in 0..9 |-> CHOOSE c \in Digits : DigitValue[c] = d]
\* the characters of the names of the modelled runs, and their bytes
CharCode == "a" :> 97 @@ "b" :> 98 @@ "|" :> 124
CodeChar == [b \in {CharCode[c] : c \in DOMAIN CharCode} |->
                CHOOSE c \in DOMAIN CharCode : CharCode[c] = b]

\* str::split(sep): the fields between the separators, empty ones included
RECURSIVE Split(_, _)
Split(text, sep) ==
    LET at == {i \in 1..Len(text) : text[i] = sep}
    IN IF at = {} THEN <<text>>
       ELSE LET i == CHOOSE x \in at : \A y \in at : x <= y
            IN <<SubSeq(text, 1, i - 1)>> \o Split(SubSeq(text, i + 1, Len(text)), sep)

RECURSIVE Join(_, _)
Join(fields, sep) ==
    IF Len(fields) = 0 THEN <<>>
    ELSE IF Len(fields) = 1 THEN fields[1]
    ELSE fields[1] \o <<sep>> \o Join(Tail(fields), sep)

\* value of a run of at most 9 decimal digits
RECURSIVE DecimalValue(_)
DecimalValue(digits) ==
    IF digits = <<>> THEN 0
    ELSE 10 * DecimalValue(SubSeq(digits, 1, Len(digits) - 1))
           + DigitValue[digits[Len(digits)]]

RECURSIVE StripZeros(_)
StripZeros(digits) ==
    IF Len(digits) > 1 /\ digits[1] = "0" THEN StripZeros(Tail(digits)) ELSE digits

\* str::parse::<u32>: an optional '+', then decimal digits; empty input, any
\* other character and a value above u32::MAX are errors
parse_u32(text) ==
    LET body == IF text # <<>> /\ text[1] = "+" THEN Tail(text) ELSE text
        digits == StripZeros(body)
        rest == DecimalValue(Tail(digits))
        first == DigitValue[digits[1]]
    IN IF body = <<>> \/ \E i \in 1..Len(body) : body[i] \notin Digits
       THEN Err("ParseIntError")
       ELSE IF Len(digits) <= 9 THEN OkValue(DecimalValue(digits))
       ELSE IF Len(digits) > 10 \/ first > 4 \/ (first = 4 /\ rest > 294967295)
       THEN Err("ParseIntError")
       ELSE IF first = 1 THEN OkValue(1000000000 + rest)
       ELSE IF first = 2 /\ rest <= 147483647 THEN OkValue(2000000000 + rest)
       ELSE IF first = 2 THEN OkValue(((rest - 147483648) - 2147483647) - 1)
       ELSE IF first = 3 THEN OkValue(rest - 1294967296)
       ELSE OkValue(rest - 294967296)

\* u32 as Display prints it: decimal, no sign, no leading zeros
RECURSIVE DecimalText(_)
DecimalText(n) ==
    IF n < 10 THEN <<DigitChar[n]>>
    ELSE DecimalText(n \div 10) \o <<DigitChar[n % 10]>>

u32_to_string(v) ==
    IF v >= 0 THEN DecimalText(v)
    ELSE LET a == (v + 2147483647) + 1
             low == (a % 1000000000) + 147483648
             top == (a \div 1000000000) + 2 + (low \div 1000000000)
             tail == DecimalText(low % 1000000000)
         IN DecimalText(top) \o [i \in 1..(9 - Len(tail)) |-> "0"] \o tail

\* Identifier as text: a decimal number, or a quoted name
Identifier_to_string(identifier) ==
    IF identifier.kind = "Numeric"
    THEN u32_to_string(u32_from_le_bytes(identifier.value))
    ELSE <<"\"">> \o [i \in 1..identifier.length |-> CodeChar[identifier.value[i]]]
           \o <<"\"">>

Identifier_from_str(text) ==
    IF text # <<>> /\ \A i \in 1..Len(text) : text[i] \in Digits
    THEN LET value == parse_u32(text)
         IN IF value[1] # "Ok" THEN value ELSE OkCommand(Identifier_numeric(value[2]))
    ELSE IF /\ Len(text) >= 3
            /\ text[1] = "\"" /\ text[Len(text)] = "\""
            /\ \A i \in 2..(Len(text) - 1) : text[i] \in DOMAIN CharCode
    THEN OkCommand(Identifier_named([i \in 1..(Len(text) - 2) |-> CharCode[text[i + 1]]]))
    ELSE Err("InvalidIdentifier")

\* Display of DeletePartitions
to_string(command) ==
    Join(<<Identifier_to_string(command.stream_id),
           Identifier_to_string(command.topic_id),
           u32_to_string(command.partitions_count)>>, "|")

from_str(input) ==
    LET parts == Split(input, "|")
    IN IF Len(parts) # 3 THEN Err("InvalidCommand")
       ELSE
         LET stream_id == Identifier_from_str(parts[1])
             topic_id == Identifier_from_str(parts[2])
             partitions_count == parse_u32(parts[3])
         IN IF stream_id[1] # "Ok" THEN stream_id
            ELSE IF topic_id[1] # "Ok" THEN topic_id
            ELSE IF partitions_count[1] # "Ok" THEN partitions_count
            ELSE LET command == DeletePartitions(stream_id[2], topic_id[2],
                                                 partitions_count[2])
                 IN IF validate(command) # Ok THEN validate(command)
                    ELSE OkCommand(command)

\* ---- the commands, byte inputs and text inputs of the modelled runs
IdentifierSamples ==
    {Identifier_numeric(1), Identifier_numeric(258),
     Identifier_named(<<97, 98>>), Identifier_named(<<97, 124>>)}

\* partitions_count around the ends of the accepted range, and u32::MAX
CountSamples ==
    {0, 1, 2, MAX_PARTITIONS_COUNT - 1, MAX_PARTITIONS_COUNT,
     MAX_PARTITIONS_COUNT + 1, 16777216, wrapping_sub(0, 1)}

CommandSamples ==
    {DeletePartitions(s, t, c) :
        s \in IdentifierSamples, t \in IdentifierSamples, c \in CountSamples}

\* a client sends the bytes of a command, or only the first of them
CallFromBytes ==
    \E command \in CommandSamples, cut \in 0..MaxCut :
        LET whole == as_bytes(command)
            bytes == SubSeq(whole, 1, Len(whole) - cut)
        IN /\ request' = [form |-> "bytes", input |-> bytes]
           /\ response' = from_bytes(bytes)
           /\ UNCHANGED <<segment_vars, partition_vars, config_vars, task_vars>>

\* what a text input is made of: the fields of a command, with the last
\* field left out, doubled, emptied, or followed by a letter
TextFields(command) ==
    LET s == Identifier_to_string(command.stream_id)
        t == Identifier_to_string(command.topic_id)
        c == u32_to_string(command.partitions_count)
    IN {<<s, t, c>>, <<s, t>>, <<s, t, c, c>>, <<s, t, <<>>>>, <<s, t, c \o <<"a">>>>,
        <<s, t, <<"+">> \o c>>, <<s, t, <<"0">> \o c>>}

\* a user types a command line
CallFromStr ==
    \E command \in CommandSamples :
        \E fields \in TextFields(command) :
            LET input == Join(fields, "|")
            IN /\ request' = [form |-> "text", input |-> input]
               /\ response' = from_str(input)
               /\ UNCHANGED <<segment_vars, partition_vars, config_vars, task_vars>>

InitCommandFields ==
    /\ request = [form |-> "none", input |-> <<>>]
    /\ response = <<"none">>

(* ---------------------------- configuration ---------------------------- *)
\* server/src/configs/validators.rs.  A u64 is the record [high, low] of its
\* upper and lower 32 bits, each a u32 representative.
MAX_SIZE_BYTES == 1000000000

U64(high, low) == [high |-> high, low |-> low]

\* `as u32`: the lower 32 bits
as_u32(x) == x.low

\* unsigned order of a u64 and a u32
U64GreaterThanU32(x, y) == x.high # 0 \/ U32Less(y, x.low)

SegmentConfig_validate(size) ==
    IF U32Less(MAX_SIZE_BYTES, as_u32(size)) THEN Err("InvalidConfiguration")
    ELSE Ok

\* the sizes of the modelled runs: around 0, around MAX_SIZE_BYTES and around
\* 2^32 in the lower half, with the upper half up to MaxSizeHigh
SizeSamples ==
    {U64(high, low) :
        high \in 0..MaxSizeHigh,
        low \in (0..MaxSizeDelta)
                 \cup {MAX_SIZE_BYTES + d : d \in (0 - MaxSizeDelta)..MaxSizeDelta}
                 \cup {wrapping_sub(0, d) : d \in 1..MaxSizeDelta}}

\* the server validates its configuration at start-up
CallValidateSegmentConfig ==
    \E size \in SizeSamples :
        /\ segment_config' = [size |-> size]
        /\ validation' = SegmentConfig_validate(size)
        /\ UNCHANGED <<segment_vars, partition_vars, command_vars, task_vars>>

InitConfigFields ==
    /\ segment_config = [size |-> U64(0, 0)]
    /\ validation = <<"none">>

(* ------------------------- concurrent callers -------------------------- *)
\* store_consumer_offset and get_consumer_offset as tasks.  A task is
\* suspended where it awaits: at write().await / read().await until the lock
\* is granted, and at save_consumer_offset(..).await.  The guard of a lock
\* lives until the call returns.
TaskIds == 1..MaxTasks

IdleTask == [op |-> "none", kind |-> "Consumer", consumer_id |-> 0, offset |-> 0,
             pc |-> "idle", result |-> <<"none">>]

\* a task whose call has returned: only the call and its result are kept
Returned(op, result) == [IdleTask EXCEPT !.op = op, !.pc = "done", !.result = result]

\* RwLock: a write guard is granted when nobody holds the lock, a read guard
\* when no writer holds it
FreeLock == [writer |-> {}, readers |-> {}]
CanWrite(kind) == locks[kind].writer = {} /\ locks[kind].readers = {}
CanRead(kind) == locks[kind].writer = {}

SetMap(kind, map) ==
    IF kind = "Consumer"
    THEN /\ consumer_offsets' = map
         /\ UNCHANGED consumer_group_offsets
    ELSE /\ consumer_group_offsets' = map
         /\ UNCHANGED consumer_offsets

TaskFrame ==
    /\ UNCHANGED <<partition_current_offset, segments, plast>>
    /\ UNCHANGED <<segment_vars, command_vars, config_vars>>

\* a caller starts store_consumer_offset: the offset check, then write().await
StartStore(t) ==
    \E kind \in Kinds, consumer_id \in ConsumerIds, offset \in 0..(MaxPartitionOffset + 1) :
        /\ tasks[t].pc \in {"idle", "done"}
        /\ tasks' = [tasks EXCEPT ![t] =
                IF offset > partition_current_offset
                THEN Returned("store_consumer_offset", InvalidOffset(offset))
                ELSE [op |-> "store_consumer_offset", kind |-> kind,
                      consumer_id |-> consumer_id, offset |-> offset,
                      pc |-> "write", result |-> <<"none">>]]
        /\ UNCHANGED <<locks, store_failed, consumer_offsets, consumer_group_offsets,
                       stored_offsets>>
        /\ TaskFrame

\* store_offset up to its await: what is done to the map before
\* save_consumer_offset is awaited
store_offset_before_save(consumer_id, offset, map) ==
    IF consumer_id \in DOMAIN map
    THEN [map EXCEPT ![consumer_id].offset = offset]
    ELSE map

\* the write guard is granted; store_offset runs up to save_consumer_offset
AcquireWrite(t) ==
    LET task == tasks[t]
    IN /\ task.pc = "write"
       /\ CanWrite(task.kind)
       /\ locks' = [locks EXCEPT ![task.kind].writer = {t}]
       /\ SetMap(task.kind,
                 store_offset_before_save(task.consumer_id, task.offset, MapOf(task.kind)))
       /\ tasks' = [tasks EXCEPT ![t].pc = "save"]
       /\ UNCHANGED <<stored_offsets, store_failed>>
       /\ TaskFrame

\* save_consumer_offset returns; store_offset finishes and the guard is dropped
FinishStore(t) ==
    \E save_fails \in BOOLEAN :
        LET task == tasks[t]
            r == store_offset(task.kind, task.consumer_id, task.offset,
                              MapOf(task.kind), save_fails)
        IN /\ task.pc = "save"
           /\ SetMap(task.kind, r[2])
           /\ stored_offsets' = r[3]
           /\ locks' = [locks EXCEPT ![task.kind].writer = {}]
           /\ tasks' = [tasks EXCEPT ![t] = Returned(task.op, r[1])]
           /\ store_failed' = (store_failed \/ r[1] # Ok)
           /\ TaskFrame

\* a caller starts get_consumer_offset: read().await
StartGet(t) ==
    \E kind \in Kinds, consumer_id \in ConsumerIds :
        /\ tasks[t].pc \in {"idle", "done"}
        /\ tasks' = [tasks EXCEPT ![t] =
                [op |-> "get_consumer_offset", kind |-> kind,
                 consumer_id |-> consumer_id, offset |-> 0,
                 pc |-> "read", result |-> <<"none">>]]
        /\ UNCHANGED <<locks, store_failed, consumer_offsets, consumer_group_offsets,
                       stored_offsets>>
        /\ TaskFrame

\* the read guard is granted
AcquireRead(t) ==
    LET task == tasks[t]
    IN /\ task.pc = "read"
       /\ CanRead(task.kind)
       /\ locks' = [locks EXCEPT ![task.kind].readers = @ \cup {t}]
       /\ tasks' = [tasks EXCEPT ![t].pc = "get"]
       /\ UNCHANGED <<store_failed, consumer_offsets, consumer_group_offsets,
                      stored_offsets>>
       /\ TaskFrame

\* the map is read, the guard is dropped, the offset is returned
FinishGet(t) ==
    LET task == tasks[t]
    IN /\ task.pc = "get"
       /\ locks' = [locks EXCEPT ![task.kind].readers = @ \ {t}]
       /\ tasks' = [tasks EXCEPT ![t] =
               Returned(task.op, OkValue(get_consumer_offset(task.kind,
                                                             task.consumer_id)))]
       /\ UNCHANGED <<store_failed, consumer_offsets, consumer_group_offsets,
                      stored_offsets>>
       /\ TaskFrame

InitTaskFields ==
    /\ tasks = [t \in TaskIds |-> IdleTask]
    /\ locks = [kind \in Kinds |-> FreeLock]
    /\ store_failed = FALSE

(* --------------------------- specifications ---------------------------- *)
\* a partition on its own: the segment is left as created
InitPartition ==
    /\ InitPartitionFields
    /\ InitSegmentFields
    /\ InitCommandFields
    /\ InitConfigFields
    /\ InitTaskFields
    /\ start_offset = 0
    /\ indexes = None
    /\ time_indexes = None
    /\ overflow_checks = FALSE

NextPartition == CallStoreConsumerOffset \/ CallGetConsumerOffset

SpecPartition == InitPartition /\ [][NextPartition]_vars

\* a partition that is restarted, over a storage whose writes succeed
\* a partition whose load_consumer_offsets failed is not put to use
Running == ~(plast.op = "load_consumer_offsets" /\ plast.result = IoError)

NextRestart ==
    \/ Running /\ CallStoreConsumerOffsetSaved
    \/ Running /\ CallGetConsumerOffset
    \/ Restart

SpecRestart == InitPartition /\ [][NextRestart]_vars

\* a segment on its own: the partition's offset store is left as created
InitSegment ==
    /\ InitSegmentFields
    /\ InitPartitionFields
    /\ InitCommandFields
    /\ InitConfigFields
    /\ InitTaskFields
    /\ partition_current_offset = 0

NextSegment == CallAppendMessages \/ CallPersistMessages

SpecSegment == InitSegment /\ [][NextSegment]_vars

\* a segment that is written to and read from: it starts above offset 0, has
\* no time indexes, and its storage does not fail
InitRead ==
    /\ InitSegment
    /\ start_offset > 0
    /\ time_indexes = None

CallPersistMessagesSaved ==
    \E expired \in BOOLEAN :
        /\ Len(disk_log) + Len(unsaved_messages.items) <= MaxDiskBatches
        /\ persist_messages("none", expired)

NextRead == CallAppendMessages \/ CallPersistMessagesSaved \/ CallGetMessages

SpecRead == InitRead /\ [][NextRead]_vars

\* the command codec on its own: partition and segment are left as created
InitCodec ==
    /\ InitPartition
    /\ partition_current_offset = 0

NextCodec == CallFromBytes \/ CallFromStr

SpecCodec == InitCodec /\ [][NextCodec]_vars

\* the configuration check on its own
NextConfig == CallValidateSegmentConfig

SpecConfig == InitCodec /\ [][NextConfig]_vars

\* a partition called by concurrent tasks
NextConcurrent ==
    \E t \in TaskIds :
        \/ StartStore(t)
        \/ AcquireWrite(t)
        \/ FinishStore(t)
        \/ StartGet(t)
        \/ AcquireRead(t)
        \/ FinishGet(t)

InitConcurrent ==
    /\ InitPartition
    /\ partition_current_offset = MaxPartitionOffset

SpecConcurrent == InitConcurrent /\ [][NextConcurrent]_vars


\* a partition rolling its segments: batches of 400 bytes are appended to the
\* active segment, persisted from time to time, and a closed active segment
\* is followed by a new one
CallAppendRolloverBatch ==
    \E n \in 1..MaxBatchMessages :
        /\ NextOffset + n - 1 <= MaxOffset
        /\ append_messages(messages_to_batch(NextOffset, n - 1, RolloverPayloadBytes),
                           NextOffset + n - 1)

\* the partition opens a new segment with start_offset = current_offset + 1
\* once the active one is closed
RollSegment ==
    /\ is_closed
    /\ Len(segments) < MaxSegments
    /\ segments' = Append(segments,
                          [start_offset |-> start_offset, end_offset |-> end_offset,
                           is_closed |-> is_closed, batches |-> disk_log])
    /\ start_offset' = NextOffset
    /\ end_offset' = 0
    /\ current_offset' = NextOffset
    /\ current_size_bytes' = 0
    /\ is_closed' = FALSE
    /\ indexes' = IF indexes.is_some THEN Some(<<>>) ELSE None
    /\ time_indexes' = IF time_indexes.is_some THEN Some(<<>>) ELSE None
    /\ unsaved_messages' = None
    /\ disk_log' = <<>>
    /\ disk_index' = <<>>
    /\ last' = [op |-> "create", result |-> Ok, batch |-> <<>>,
                last_message_offset |-> 0, calls |-> <<>>, full |-> FALSE,
                offset |-> 0, count |-> 0]
    /\ UNCHANGED <<overflow_checks, partition_current_offset, consumer_offsets,
                   consumer_group_offsets, stored_offsets, plast>>
    /\ UNCHANGED <<command_vars, config_vars, task_vars>>

InitRollover ==
    /\ InitSegment
    /\ start_offset = 0

NextRollover == CallAppendRolloverBatch \/ CallPersistMessages \/ RollSegment

SpecRollover == InitRollover /\ [][NextRollover]_vars

(* ------------------------------ claims --------------------------------- *)
StoreFields == <<consumer_offsets, consumer_group_offsets, stored_offsets>>

\* C1 (as stated): store_consumer_offset(c, o) succeeds if and only if
\* o <= partition.current_offset.
C1_SucceedsIffOffsetValid ==
    plast.op = "store_consumer_offset" =>
        ((plast.result = Ok) <=> (plast.offset <= partition_current_offset))

\* C1 (amended): store_consumer_offset(c, o) fails with InvalidOffset(o) if
\* and only if o > current_offset, and then it makes no storage write and
\* leaves both maps and the storage unchanged; when o <= current_offset it
\* makes one save_consumer_offset call and succeeds exactly when that call
\* succeeds.
C1_StoreValidation ==
    [][plast'.op = "store_consumer_offset" =>
        /\ (plast'.result = InvalidOffset(plast'.offset))
              <=> (plast'.offset > partition_current_offset)
        /\ plast'.offset > partition_current_offset =>
              /\ plast'.saves = <<>>
              /\ UNCHANGED StoreFields
        /\ plast'.offset <= partition_current_offset =>
              /\ Len(plast'.saves) = 1
              /\ (plast'.result = Ok) <=> (plast'.saves = <<Ok>>)
              /\ plast'.result # Ok => plast'.result = plast'.saves[1]
    ]_vars

\* an offset above current_offset was rejected while offsets were stored
C1_Witness ==
    /\ plast.op = "store_consumer_offset"
    /\ plast.result = InvalidOffset(partition_current_offset + 1)
    /\ DOMAIN consumer_offsets # {}
    /\ DOMAIN stored_offsets # {}

\* C2: after store_consumer_offset(c, o) succeeds, get_consumer_offset(c)
\* returns o, and its value changes only by a later store_consumer_offset
\* for the same kind and id that succeeds.
C2_OffsetKeptUntilReplaced ==
    [][\A kind \in Kinds, consumer_id \in ConsumerIds :
        /\ (/\ plast'.op = "store_consumer_offset"
            /\ plast'.result = Ok
            /\ plast'.kind = kind
            /\ plast'.consumer_id = consumer_id)
              => get_consumer_offset(kind, consumer_id)' = plast'.offset
        /\ get_consumer_offset(kind, consumer_id)' # get_consumer_offset(kind, consumer_id)
              => /\ plast'.op = "store_consumer_offset"
                 /\ plast'.result = Ok
                 /\ plast'.kind = kind
                 /\ plast'.consumer_id = consumer_id
    ]_vars


(* ------------------------- claims on the segment ----------------------- *)
SegmentFields == <<start_offset, end_offset, current_offset, current_size_bytes,
                   is_closed, indexes, time_indexes, unsaved_messages>>

Range(seq) == {seq[i] : i \in 1..Len(seq)}

\* offsets [lo, hi] in ascending order
OffsetRun(lo, hi) == [i \in 1..(hi - lo + 1) |-> lo + i - 1]

\* the batches the segment has accepted so far
AppendedBatches == Range(disk_log) \cup Range(unsaved_messages.items)

RECURSIVE SumLengthOf(_)
SumLengthOf(batches) ==
    IF batches = {} THEN 0
    ELSE LET b == CHOOSE x \in batches : TRUE
         IN b.length + SumLengthOf(batches \ {b})

\* offsets still in the unsaved buffer / offsets only in the log file
BufferedOffsets == Range(Flatten(unsaved_messages.items))
PersistedOffsets == Range(Flatten(disk_log)) \ BufferedOffsets

\* C3: every offset of a successfully appended batch is returned by
\* get_messages(offset, 1), while buffered and after persist_messages.
C3_AppendedIsRetrievable ==
    \A o \in start_offset..(NextOffset - 1) : get_messages(o, 1) = <<o>>

\* C4: a range that starts in the persisted part and ends inside the unsaved
\* buffer is returned whole, in ascending order, nothing missing or doubled.
C4_DiskThenBuffer ==
    \A offset \in PersistedOffsets, count \in 1..(MaxOffset + 1) :
        (offset + count - 1) \in BufferedOffsets
            => get_messages(offset, count) = OffsetRun(offset, offset + count - 1)

\* C5: append_messages on a closed segment fails with
\* SegmentClosed(start_offset, partition_id) and changes no field of the
\* segment.
C5_ClosedRejectsAppend ==
    [][(last'.op = "append_messages" /\ is_closed) =>
        /\ last'.result = SegmentClosed(start_offset, partition_id)
        /\ UNCHANGED SegmentFields
    ]_vars

\* an append was rejected by a closed segment that holds index entries
C5_Witness ==
    /\ last.op = "append_messages"
    /\ last.result = SegmentClosed(start_offset, partition_id)
    /\ is_closed
    /\ indexes.items # <<>>

\* C6: after a successful append_messages(batch, last_message_offset) the
\* segment's current_offset equals last_message_offset.
C6_CurrentOffsetIsLast ==
    (last.op = "append_messages" /\ last.result = Ok)
        => current_offset = last.last_message_offset

\* C7: a successful append_messages grows current_size_bytes by exactly
\* batch.length.
C7_SizeGrowsByBatchLength ==
    [][(last'.op = "append_messages" /\ last'.result = Ok) =>
        current_size_bytes' = current_size_bytes + last'.batch[1].length
    ]_vars

\* C8: with byte indexes enabled a successful append_messages adds exactly
\* one index entry, with relative_offset = last_message_offset - start_offset
\* and position = current_size_bytes before the batch = the byte position at
\* which this batch begins in the log.
C8_IndexEntryOfBatch ==
    [][(last'.op = "append_messages" /\ last'.result = Ok /\ indexes.is_some) =>
        /\ indexes'.items =
              Append(indexes.items,
                     [relative_offset |-> last'.last_message_offset - start_offset,
                      position |-> current_size_bytes])
        /\ indexes'.items[Len(indexes'.items)].position = SumLengthOf(AppendedBatches)
    ]_vars

\* C9: the index entries have strictly increasing relative_offset,
\* non-decreasing position, and every position is <= current_size_bytes.
C9_IndexesOrdered ==
    indexes.is_some =>
        /\ \A i \in 1..Len(indexes.items), j \in 1..Len(indexes.items) :
              i < j => /\ indexes.items[i].relative_offset < indexes.items[j].relative_offset
                       /\ U32LessEq(indexes.items[i].position, indexes.items[j].position)
        /\ \A i \in 1..Len(indexes.items) :
              U32LessEq(indexes.items[i].position, current_size_bytes)

\* several batches were indexed and one persist_messages went through
C9_Witness ==
    /\ indexes.is_some
    /\ Len(indexes.items) >= 3
    /\ disk_index # <<>>
    /\ unsaved_messages.items # <<>>

\* C10 (as stated): when a storage call of persist_messages fails, the
\* unsaved buffer entry and the offset assignment of the unpersisted batch
\* are rolled back.
C10_FailedPersistRollsBack ==
    (last.op = "persist_messages" /\ last.result = IoError) =>
        /\ unsaved_messages.items = <<>>
        /\ \A i \in 1..Len(indexes.items) :
              (start_offset + indexes.items[i].relative_offset)
                  \in Range(Flatten(disk_log))

\* C10 (amended): when save_messages, save_index or save_time_index fails,
\* persist_messages returns the error and leaves every field of the segment
\* as it was: the unsaved buffer still holds the batches, and current_offset
\* and the index entries are not rolled back.
C10_FailedPersistKeepsState ==
    [][(last'.op = "persist_messages" /\ last'.result = IoError) =>
        /\ UNCHANGED SegmentFields
        /\ unsaved_messages'.items # <<>>
    ]_vars

\* save_index failed after save_messages wrote the buffered batches
C10_Witness ==
    /\ last.op = "persist_messages"
    /\ last.result = IoError
    /\ last.calls = <<"save_messages", "save_index">>
    /\ Len(unsaved_messages.items) >= 2
    /\ indexes.items # <<>>


\* C11: after a successful persist_messages with a non-empty unsaved buffer:
\* if is_full() held, end_offset = current_offset, is_closed is true and the
\* unsaved buffer is dropped (None); otherwise is_closed and end_offset are
\* unchanged and the unsaved buffer is present and empty.
C11_PersistClosesWhenFull ==
    [][(/\ last'.op = "persist_messages"
        /\ last'.result = Ok
        /\ unsaved_messages.items # <<>>) =>
        IF last'.full
        THEN /\ end_offset' = current_offset'
             /\ is_closed' = TRUE
             /\ unsaved_messages' = None
        ELSE /\ UNCHANGED <<is_closed, end_offset>>
             /\ unsaved_messages' = Some(<<>>)
    ]_vars

\* a full segment that did not start at offset 0 was persisted and closed
C11_Witness ==
    /\ last.op = "persist_messages"
    /\ last.result = Ok
    /\ last.full
    /\ is_closed
    /\ start_offset = 1
    /\ end_offset = current_offset
    /\ ~unsaved_messages.is_some

\* C12: Closed is terminal: once is_closed is true no append_messages or
\* persist_messages call makes it false or changes end_offset,
\* current_offset, current_size_bytes, indexes or the unsaved buffer, and
\* end_offset = current_offset in every closed state.
C12_ClosedIsTerminal ==
    /\ [][is_closed =>
            /\ is_closed'
            /\ UNCHANGED <<end_offset, current_offset, current_size_bytes,
                           indexes, unsaved_messages>>
         ]_vars
    /\ [](is_closed => end_offset = current_offset)

\* persist_messages was called on a segment that was already closed
C12_Witness ==
    /\ is_closed
    /\ last.op = "persist_messages"
    /\ last.calls = <<>>
    /\ indexes.items # <<>>
    /\ disk_log # <<>>


(* ------------------------ claims on the rollover ----------------------- *)
\* every batch the partition has accepted, in any of its segments
RECURSIVE SegmentsBatches(_)
SegmentsBatches(segs) ==
    IF segs = <<>> THEN {}
    ELSE Range(Head(segs).batches) \cup SegmentsBatches(Tail(segs))

PartitionBatches == SegmentsBatches(segments) \cup AppendedBatches

\* the k-th batch of the partition, by offset
NthBatch(k) ==
    CHOOSE b \in PartitionBatches :
        Cardinality({x \in PartitionBatches : x.base_offset < b.base_offset}) = k - 1

\* the start offsets of the partition's segments, the active one last
FirstSegment ==
    IF segments = <<>>
    THEN [start_offset |-> start_offset, end_offset |-> end_offset,
          is_closed |-> is_closed]
    ELSE [start_offset |-> segments[1].start_offset,
          end_offset |-> segments[1].end_offset,
          is_closed |-> segments[1].is_closed]

C14_RestartRoundTrip ==
    /\ [][(plast'.op = "load_consumer_offsets" /\ plast'.result = Ok /\ Running) =>
            \A kind \in Kinds, consumer_id \in ConsumerIds :
                get_consumer_offset(kind, consumer_id)'
                    = get_consumer_offset(kind, consumer_id)
         ]_vars
    /\ [](Running =>
            \A kind \in Kinds, consumer_id \in ConsumerIds :
                get_consumer_offset(kind, consumer_id)
                    = IF <<kind, consumer_id>> \in DOMAIN stored_offsets
                      THEN stored_offsets[<<kind, consumer_id>>] ELSE 0)

\* a restart loaded offsets of both kinds, the same id with different offsets
C14_Witness ==
    /\ plast.op = "load_consumer_offsets"
    /\ plast.result = Ok
    /\ 1 \in DOMAIN consumer_offsets
    /\ 1 \in DOMAIN consumer_group_offsets
    /\ consumer_offsets[1].offset # consumer_group_offsets[1].offset


\* C15: in store_consumer_offset the storage write precedes the in-memory
\* change, for an insert and for an update: when save_consumer_offset fails
\* the call returns the error and get_consumer_offset still returns the
\* previous value for that consumer.
C15_FailedStoreKeepsOffset ==
    [][\A kind \in Kinds, consumer_id \in ConsumerIds :
        (/\ plast'.op = "store_consumer_offset"
         /\ plast'.kind = kind
         /\ plast'.consumer_id = consumer_id
         /\ IoError \in Range(plast'.saves)) =>
            /\ plast'.result = IoError
            /\ get_consumer_offset(kind, consumer_id)'
                  = get_consumer_offset(kind, consumer_id)
    ]_vars

\* C16 (as stated): a failed storage write is retried exactly once, and
\* store_consumer_offset returns what the second attempt returned.
C16_RetriedOnce ==
    (plast.op = "store_consumer_offset" /\ plast.saves # <<>>
        /\ plast.saves[1] = IoError) =>
            /\ Len(plast.saves) = 2
            /\ plast.result = plast.saves[2]

\* C16 (amended): store_consumer_offset with a valid offset calls
\* save_consumer_offset exactly once and returns what that call returned;
\* a storage error is not retried.
C16_NoRetry ==
    [][(/\ plast'.op = "store_consumer_offset"
        /\ plast'.offset <= partition_current_offset) =>
            /\ Len(plast'.saves) = 1
            /\ plast'.result = plast'.saves[1]
            /\ plast'.saves[1] = IoError => UNCHANGED stored_offsets
    ]_vars

\* the storage write of a new consumer's offset failed and was not repeated
C16_Witness ==
    /\ plast.op = "store_consumer_offset"
    /\ plast.saves = <<IoError>>
    /\ plast.result = IoError
    /\ plast.consumer_id \notin DOMAIN MapOf(plast.kind)


\* C17: get_consumer_offset returns the offset stored under the asked kind
\* and id, and 0 when that kind's map has no entry for the id, even when the
\* other kind's map has an entry with the same id; it changes neither map
\* nor the storage.
C17_GetReadsOwnKindOnly ==
    [][plast'.op = "get_consumer_offset" =>
        /\ (plast'.kind = "Consumer" /\ plast'.consumer_id \notin DOMAIN consumer_offsets)
              => plast'.result = OkValue(0)
        /\ (plast'.kind = "Consumer" /\ plast'.consumer_id \in DOMAIN consumer_offsets)
              => plast'.result = OkValue(consumer_offsets[plast'.consumer_id].offset)
        /\ (plast'.kind # "Consumer"
                /\ plast'.consumer_id \notin DOMAIN consumer_group_offsets)
              => plast'.result = OkValue(0)
        /\ (plast'.kind # "Consumer"
                /\ plast'.consumer_id \in DOMAIN consumer_group_offsets)
              => plast'.result
                    = OkValue(consumer_group_offsets[plast'.consumer_id].offset)
        /\ UNCHANGED StoreFields
    ]_vars

\* 0 was returned for a consumer whose id has a non-zero offset stored as a
\* consumer group
C17_Witness ==
    /\ plast.op = "get_consumer_offset"
    /\ plast.kind = "Consumer"
    /\ plast.consumer_id \notin DOMAIN consumer_offsets
    /\ plast.consumer_id \in DOMAIN consumer_group_offsets
    /\ consumer_group_offsets[plast.consumer_id].offset # 0
    /\ plast.result = OkValue(0)


\* C18 (as stated): an offset above current_offset is treated as
\* current_offset: get_messages(offset, count) with offset > current_offset
\* returns what get_messages(current_offset, count) returns.
C18_OffsetClampedAbove ==
    (/\ last.op = "get_messages"
     /\ last.count > 0
     /\ last.offset > current_offset)
        => last.result = OkValue(get_messages(current_offset, last.count))

\* C18 (amended): get_messages(offset, count) with count > 0 treats an offset
\* below start_offset as start_offset, returns no message for an offset above
\* current_offset, and returns only offsets within
\* [max(offset, start_offset), min(max(offset, start_offset) + count - 1,
\* current_offset)], in ascending order.
C18_OffsetClampedBelow ==
    [][(last'.op = "get_messages" /\ last'.count > 0) =>
        LET returned == last'.result[2]
            clamped == IF last'.offset < start_offset THEN start_offset
                       ELSE last'.offset
            end == IF clamped + last'.count - 1 > current_offset
                   THEN current_offset ELSE clamped + last'.count - 1
        IN /\ last'.result[1] = "Ok"
           /\ \A i \in 1..Len(returned) : returned[i] \in clamped..end
           /\ \A i \in 1..Len(returned), j \in 1..Len(returned) :
                 i < j => returned[i] < returned[j]
           /\ last'.offset < start_offset
                 => returned = get_messages(start_offset, last'.count)
           /\ last'.offset > current_offset => returned = <<>>
    ]_vars

\* a read above current_offset returned nothing while a read at
\* current_offset returns a message
C18_Witness ==
    /\ last.op = "get_messages"
    /\ last.count > 0
    /\ last.offset > current_offset
    /\ last.result = OkValue(<<>>)
    /\ get_messages(current_offset, last.count) # <<>>

\* C19: get_messages_count() is 0 for a segment that has received no
\* messages, and after successful appends it is the number of messages
\* appended to the segment, which is current_offset - start_offset + 1.
C19_CountsAppendedMessages ==
    /\ AppendedBatches = {} => get_messages_count = 0
    /\ AppendedBatches # {} =>
          /\ get_messages_count = NextOffset - start_offset
          /\ get_messages_count = current_offset - start_offset + 1


\* C20: from_bytes and from_str return Ok only with partitions_count in
\* [1, 100000]; given a well-framed input (the bytes of a command, or the
\* text of a command that has exactly three '|'-separated fields) whose
\* partitions_count is 0 or above 100000 they fail with TooManyPartitions,
\* and given one of a command within the range they return Ok.
C20_DecodeValidates ==
    /\ response[1] = "Ok" => response[2].partitions_count \in 1..100000
    /\ \A command \in CommandSamples :
          (\/ request.form = "bytes" /\ request.input = as_bytes(command)
           \/ /\ request.form = "text"
              /\ request.input = to_string(command)
              /\ Len(Split(request.input, "|")) = 3)
             => /\ (response[1] = "Ok") <=> (command.partitions_count \in 1..100000)
                /\ command.partitions_count \notin 1..100000
                      => response = Err("TooManyPartitions")

\* the bytes of a command with partitions_count = 100001 were rejected
C20_Witness ==
    /\ request.form = "bytes"
    /\ \E s \in IdentifierSamples, t \in IdentifierSamples :
          request.input = as_bytes(DeletePartitions(s, t, 100001))
    /\ response = Err("TooManyPartitions")


\* C21: binary round trip: for every command x with partitions_count in
\* [1, 100000], from_bytes(as_bytes(x)) = Ok(x); as_bytes(x) is the stream
\* id (tag, length, payload), then the topic id, then partitions_count as 4
\* little-endian bytes.
C21_BinaryRoundTrip ==
    \A command \in CommandSamples :
        (/\ request.form = "bytes"
         /\ request.input = as_bytes(command)
         /\ command.partitions_count \in 1..100000) =>
            LET s == 2 + command.stream_id.length
                t == 2 + command.topic_id.length
                n == command.partitions_count
                bytes == request.input
            IN /\ response = OkCommand(command)
               /\ Len(bytes) = s + t + 4
               /\ SubSeq(bytes, 3, s) = command.stream_id.value
               /\ bytes[2] = command.stream_id.length
               /\ SubSeq(bytes, s + 3, s + t) = command.topic_id.value
               /\ bytes[s + 2] = command.topic_id.length
               /\ bytes[s + t + 1] + 256 * bytes[s + t + 2]
                     + 65536 * bytes[s + t + 3] + 16777216 * bytes[s + t + 4] = n

\* the bytes of a command with a named stream, a numeric topic and
\* partitions_count = 100000 were decoded to that command
C21_Witness ==
    /\ request.form = "bytes"
    /\ response[1] = "Ok"
    /\ response[2].stream_id.kind = "String"
    /\ response[2].topic_id.kind = "Numeric"
    /\ response[2].partitions_count = 100000
    /\ request.input = as_bytes(response[2])

\* C22: textual round trip: for every command x with partitions_count in
\* [1, 100000], from_str(to_string(x)) = Ok(x), the text being
\* <stream_id>|<topic_id>|<partitions_count>; an input that does not split
\* into exactly 3 fields fails with InvalidCommand.
C22_TextRoundTrip ==
    /\ \A command \in CommandSamples :
          (/\ request.form = "text"
           /\ request.input = to_string(command)
           /\ command.partitions_count \in 1..100000)
             => response = OkCommand(command)
    /\ (request.form = "text" /\ Len(Split(request.input, "|")) # 3)
          => response = Err("InvalidCommand")


\* C23: from_bytes returns InvalidCommand, and does not abort, for every
\* input too short for its framing: an input under 10 bytes, and an input of
\* 10 or more bytes whose two identifiers leave fewer than 4 bytes for
\* partitions_count.
C23_ShortInputRejected ==
    request.form = "bytes" =>
        /\ Len(request.input) < 10 => response = Err("InvalidCommand")
        /\ \A command \in CommandSamples :
              (/\ Len(request.input) < Len(as_bytes(command))
               /\ Len(request.input) >= get_size_bytes(command.stream_id)
                                           + get_size_bytes(command.topic_id)
               /\ request.input = SubSeq(as_bytes(command), 1, Len(request.input)))
                 => response = Err("InvalidCommand")


\* C24: SegmentConfig.validate fails with InvalidConfiguration for every
\* size above MAX_SIZE_BYTES, sizes of 2^32 or more included, and succeeds
\* for every size <= MAX_SIZE_BYTES.
C24_SegmentSizeBounded ==
    validation # <<"none">> =>
        validation = IF U64GreaterThanU32(segment_config.size, MAX_SIZE_BYTES)
                     THEN Err("InvalidConfiguration")
                     ELSE Ok


\* C25: persist_messages with a non-empty unsaved buffer calls save_messages,
\* then save_index, then save_time_index; when one of them fails the later
\* ones are not called, the error is returned, and is_closed, end_offset and
\* the unsaved buffer are left as they were.
C25_PersistCallOrder ==
    [][(/\ last'.op = "persist_messages"
        /\ unsaved_messages.is_some
        /\ unsaved_messages.items # <<>>) =>
        \/ /\ last'.result = Ok
           /\ last'.calls = <<"save_messages", "save_index", "save_time_index">>
        \/ /\ last'.result = IoError
           /\ last'.calls \in {<<"save_messages">>,
                                <<"save_messages", "save_index">>,
                                <<"save_messages", "save_index", "save_time_index">>}
           /\ UNCHANGED <<is_closed, end_offset, unsaved_messages>>
    ]_vars

\* C26: persist_messages with an absent or empty unsaved buffer makes no
\* storage call, returns Ok and changes no field of the segment nor the
\* files; a persist_messages that follows a successful persist_messages is
\* such a call.
C26_PersistOfNothing ==
    /\ [][(/\ last'.op = "persist_messages"
           /\ (~unsaved_messages.is_some \/ unsaved_messages.items = <<>>)) =>
            /\ last'.result = Ok
            /\ last'.calls = <<>>
            /\ UNCHANGED SegmentFields
            /\ UNCHANGED <<disk_log, disk_index>>
       ]_vars
    /\ []((last.op = "persist_messages" /\ last.result = Ok)
            => (~unsaved_messages.is_some \/ unsaved_messages.items = <<>>))

\* a persist_messages found the buffer emptied by an earlier one, on a
\* segment that is still open
C26_Witness ==
    /\ last.op = "persist_messages"
    /\ last.result = Ok
    /\ last.calls = <<>>
    /\ unsaved_messages = Some(<<>>)
    /\ disk_log # <<>>
    /\ ~is_closed


\* task t is inside store_consumer_offset, between write().await and the
\* return, on the map of this kind
Writing(t, kind) ==
    /\ tasks[t].op = "store_consumer_offset"
    /\ tasks[t].pc = "save"
    /\ tasks[t].kind = kind

\* task t is inside get_consumer_offset, between read().await and the return
Reading(t, kind) ==
    /\ tasks[t].op = "get_consumer_offset"
    /\ tasks[t].pc = "get"
    /\ tasks[t].kind = kind

\* the offset last persisted for the consumer, 0 when there is none
PersistedOffset(kind, consumer_id) ==
    IF <<kind, consumer_id>> \in DOMAIN stored_offsets
    THEN stored_offsets[<<kind, consumer_id>>] ELSE 0

\* writers of one map exclude each other and the readers of that map
C27_WritersExclusive ==
    \A kind \in Kinds, t1 \in TaskIds, t2 \in TaskIds :
        (t1 # t2 /\ Writing(t1, kind)) => (~Writing(t2, kind) /\ ~Reading(t2, kind))

\* a get_consumer_offset returns the offset last persisted for its consumer,
\* never the offset of a store that was applied to the map only
C27_ReaderSeesWholeStores ==
    [][\A t \in TaskIds :
        (tasks[t].pc = "get" /\ tasks'[t].pc = "done") =>
            tasks'[t].result
                = OkValue(PersistedOffset(tasks[t].kind, tasks[t].consumer_id))
    ]_vars

\* with no store in progress and none failed, the map holds for each
\* consumer the offset last persisted for it
C27_SettledAfterStores ==
    (~store_failed /\ \A t \in TaskIds : tasks[t].pc # "save") =>
        \A kind \in Kinds, consumer_id \in ConsumerIds :
            get_consumer_offset(kind, consumer_id) = PersistedOffset(kind, consumer_id)

\* C27: under any interleaving of store_consumer_offset and
\* get_consumer_offset tasks, writers of one map exclude each other and its
\* readers, a reader never sees a partially applied store, and once all
\* stores have completed successfully the map holds for each consumer the
\* offset last persisted for it.
C27_ConcurrentOffsets ==
    /\ []C27_WritersExclusive
    /\ C27_ReaderSeesWholeStores
    /\ []C27_SettledAfterStores


\* the first batch of the log file that holds the offset
BatchOf(offset) ==
    CHOOSE i \in 1..Len(disk_log) :
        /\ offset \in Range(BatchOffsets(disk_log[i]))
        /\ \A j \in 1..(i - 1) : offset \notin Range(BatchOffsets(disk_log[j]))

C29_PositionNeverUnderflows ==
    /\ unsaved_messages.is_some =>
          U32LessEq(SumLength(unsaved_messages.items), current_size_bytes)
    /\ last.op = "persist_messages" => last.result # Panicked

====
